---- MODULE Spec2Model ----
(***************************************************************************)
(* m3u8-detector: the /scrape and /proxy handlers of the three source      *)
(* variants (src/server.js lines 1-181, src/server.js lines 183-333 and    *)
(* src/unnamed/part_000), with isAllowed, extractM3U8 and the selection of *)
(* `best`.  Text is a sequence of one-character strings, so that URL       *)
(* parsing, the manifest regular expression and the token test are         *)
(* computed character by character.                                        *)
(***************************************************************************)
EXTENDS Integers, Sequences, FiniteSets, TLC

VARIABLES
  variant,      \* which source variant is deployed
  ALLOWLIST,    \* the module-level allowlist, read-only after start
  pc,           \* per request: where its handler is suspended
  endpoint,     \* per request: "/scrape" or "/proxy"
  query,        \* per request: req.query.url or req.query.src (<<>>: absent)
  range,        \* per request: req.headers['range'] (<<>>: absent)
  calls,        \* per request: the outbound operations it started, in order
  res,          \* per request: the response
  fetched,      \* per request: the page fetched, or held by `page` in the try (0: none)
  fired,        \* per request: how many requests the loading page has made
  browser,      \* per request: the handler's `browser` (0: undefined), naming
                \* the browser process by the request whose launch started it
  browsers,     \* the browser process each request's launch started
  m3u8Urls,     \* per request: the Set filled by page.on('request')
  upstream,     \* per request: the upstream response of /proxy
  clientGone,   \* per request: the caller closed the inbound connection
  gUrl,         \* the argument of a direct call of isAllowed
  gOut          \* its result ("none" before the call)

vars == <<variant, ALLOWLIST, pc, endpoint, query, range, calls, res, fetched, fired,
          browser, browsers, m3u8Urls, upstream, clientGone, gUrl, gOut>>

\* ------------------------------------------------------------------ text

Upper == <<"A","B","C","D","E","F","G","H","I","J","K","L","M",
           "N","O","P","Q","R","S","T","U","V","W","X","Y","Z">>
Lower == <<"a","b","c","d","e","f","g","h","i","j","k","l","m",
           "n","o","p","q","r","s","t","u","v","w","x","y","z">>

Range(s) == { s[i] : i \in 1..Len(s) }

IsLetter(c) == c \in Range(Upper) \cup Range(Lower)

\* String.prototype.toLowerCase on one character
LowerChar(c) ==
  IF c \in Range(Upper)
  THEN Lower[CHOOSE i \in 1..Len(Upper) : Upper[i] = c]
  ELSE c

toLowerCase(s) == [ i \in 1..Len(s) |-> LowerChar(s[i]) ]

\* s.substring(i-1, i-1+Len(t)) === t, 1-based
MatchesAt(s, i, t) ==
  /\ i >= 1
  /\ i + Len(t) - 1 <= Len(s)
  /\ \A k \in 1..Len(t) : s[i + k - 1] = t[k]

\* the same, ignoring case (the `i` flag of a regular expression)
MatchesAtCI(s, i, t) ==
  /\ i >= 1
  /\ i + Len(t) - 1 <= Len(s)
  /\ \A k \in 1..Len(t) : LowerChar(s[i + k - 1]) = LowerChar(t[k])

\* String.prototype.startsWith / endsWith / includes
startsWith(s, t) == MatchesAt(s, 1, t)
endsWith(s, t) == MatchesAt(s, Len(s) - Len(t) + 1, t)
includes(s, t) == \E i \in 1..(Len(s) + 1) : MatchesAt(s, i, t)

\* String.prototype.trim
RECURSIVE trimStart(_)
trimStart(s) ==
  IF Len(s) > 0 /\ Head(s) \in {" ", "\t", "\n"} THEN trimStart(Tail(s)) ELSE s
RECURSIVE trimEnd(_)
trimEnd(s) ==
  IF Len(s) > 0 /\ s[Len(s)] \in {" ", "\t", "\n"}
  THEN trimEnd(SubSeq(s, 1, Len(s) - 1))
  ELSE s
trim(s) == trimEnd(trimStart(s))

\* the first position >= i of s holding a character of set cs, or Len(s)+1
RECURSIVE FirstOf(_, _, _)
FirstOf(s, i, cs) ==
  IF i > Len(s) THEN Len(s) + 1
  ELSE IF s[i] \in cs THEN i
  ELSE FirstOf(s, i + 1, cs)

\* the last position of s holding character c, or 0
RECURSIVE LastOf(_, _, _)
LastOf(s, i, c) ==
  IF i < 1 THEN 0 ELSE IF s[i] = c THEN i ELSE LastOf(s, i - 1, c)

\* String.prototype.split(',')
RECURSIVE split(_)
SplitAt(s, p) ==
  IF p > Len(s) THEN <<s>>
  ELSE <<SubSeq(s, 1, p - 1)>> \o split(SubSeq(s, p + 1, Len(s)))
split(s) == SplitAt(s, FirstOf(s, 1, {","}))

\* -------------------------------------------------------------- new URL

\* Characters the URL parser refuses in the host of an http(s) URL.
ForbiddenHost == {" ", "\t", "\n", "<", ">", "[", "]", "^", "|", "\"", "'", "\\", "%"}

\* The length of the scheme of s (letters followed by ":"), or 0.
SchemeEnd(s, p) ==
  IF p > 1 /\ p <= Len(s) /\ \A k \in 1..(p - 1) : IsLetter(s[k]) THEN p - 1 ELSE 0
SchemeLen(s) == SchemeEnd(s, FirstOf(s, 1, {":"}))

IsSpecial(scheme) == scheme \in { <<"h", "t", "t", "p">>, <<"h", "t", "t", "p", "s">> }

BadURL == [ok |-> FALSE, scheme |-> <<>>, hostname |-> <<>>, port |-> <<>>, rest |-> <<>>]

\* new URL(s) for an absolute s: [ok, scheme, hostname, port, rest].  The
\* scheme and the host are lower-cased, the slashes after the scheme of an
\* http(s) URL are skipped, the userinfo before "@" and the port after ":"
\* are not part of hostname, and an empty or forbidden host is a TypeError.
\* The steps follow the URL parser's states.

\* the parsed URL, or the TypeError for an empty or forbidden host
MakeURL(scheme, host, port, rest) ==
  IF IsSpecial(scheme) /\ (host = <<>> \/ Range(host) \cap ForbiddenHost # {})
  THEN BadURL
  ELSE [ok |-> TRUE, scheme |-> scheme, hostname |-> host, port |-> port,
        rest |-> IF ~IsSpecial(scheme) THEN rest
                 ELSE IF rest = <<>> THEN <<"/">>
                 ELSE IF rest[1] # "/" THEN <<"/">> \o rest
                 ELSE rest]

\* host state: hostname up to the ":" of the port
SplitPort(scheme, hostport, colon, rest) ==
  MakeURL(scheme, toLowerCase(SubSeq(hostport, 1, colon - 1)),
          SubSeq(hostport, colon, Len(hostport)), rest)

\* authority state: what follows the last "@" is the host and port
SplitUserinfo(scheme, authority, at, rest) ==
  SplitPort(scheme, SubSeq(authority, at + 1, Len(authority)),
            FirstOf(SubSeq(authority, at + 1, Len(authority)), 1, {":"}), rest)

SplitAuthority(scheme, body, stop) ==
  SplitUserinfo(scheme, SubSeq(body, 1, stop - 1),
                LastOf(SubSeq(body, 1, stop - 1), stop - 1, "@"),
                SubSeq(body, stop, Len(body)))

\* the authority ends at the first "/", "?" or "#" (or "\" in an http(s) URL)
ParseAuthority(scheme, body) ==
  SplitAuthority(scheme, body,
                 FirstOf(body, 1, {"/", "?", "#"} \cup (IF IsSpecial(scheme) THEN {"\\"} ELSE {})))

\* the slashes before the authority: any run of them in an http(s) URL,
\* exactly "//" otherwise (0: no authority, an opaque path)
SkipLen(scheme, after) ==
  IF IsSpecial(scheme) THEN FirstOf(after, 1, Range(after) \ {"/", "\\"}) - 1
  ELSE IF MatchesAt(after, 1, <<"/", "/">>) THEN 2 ELSE 0

AfterScheme(scheme, after, skip) ==
  IF ~IsSpecial(scheme) /\ skip = 0
  THEN [ok |-> TRUE, scheme |-> scheme, hostname |-> <<>>, port |-> <<>>, rest |-> after]
  ELSE ParseAuthority(scheme, SubSeq(after, skip + 1, Len(after)))

WithScheme(s, n) ==
  IF n = 0 THEN BadURL
  ELSE AfterScheme(toLowerCase(SubSeq(s, 1, n)), SubSeq(s, n + 2, Len(s)),
                   SkipLen(toLowerCase(SubSeq(s, 1, n)), SubSeq(s, n + 2, Len(s))))

ParseAbsolute(s) == WithScheme(s, SchemeLen(s))

\* url.origin and url.href of a parsed URL
origin(u) == u.scheme \o <<":", "/", "/">> \o u.hostname \o u.port
href(u) == IF u.hostname = <<>> /\ ~IsSpecial(u.scheme)
           THEN u.scheme \o <<":">> \o u.rest
           ELSE origin(u) \o u.rest

\* the path of a parsed base and its directory
PathOf(rest) == SubSeq(rest, 1, FirstOf(rest, 1, {"?", "#"}) - 1)
DirOf(path) == SubSeq(path, 1, LastOf(path, Len(path), "/"))

\* a reference without a scheme against the parsed base b: "//host/p", "/p",
\* "?q", "#f" or a path relative to the directory of the base path
Relative(s, b) ==
  IF ~b.ok \/ ~IsSpecial(b.scheme) THEN BadURL
  ELSE IF MatchesAt(s, 1, <<"/", "/">>) THEN ParseAbsolute(b.scheme \o <<":">> \o s)
  ELSE IF s = <<>> THEN b
  ELSE IF s[1] = "/" THEN [b EXCEPT !.rest = s]
  ELSE IF s[1] \in {"?", "#"} THEN [b EXCEPT !.rest = PathOf(b.rest) \o s]
  ELSE [b EXCEPT !.rest = DirOf(PathOf(b.rest)) \o s]

\* new URL(s, base): an s with a scheme is parsed on its own (a bad host is a
\* TypeError, not a relative reference); otherwise s is resolved against base
ParseURL(s, base) ==
  IF SchemeLen(s) > 0 THEN ParseAbsolute(s) ELSE Relative(s, ParseAbsolute(base))

\* ------------------------------------------------------------ isAllowed

\* process.env.ALLOWLIST?.split(',').map(d => d.trim()) || []
\* (env is <<>> when the variable is unset and <<text>> when it is set)
TrimAll(parts) == [ i \in 1..Len(parts) |-> trim(parts[i]) ]
AllowlistFromEnv(env) == IF env = <<>> THEN <<>> ELSE TrimAll(split(env[1]))

\* ALLOWLIST.some(d => hostname.endsWith(d))
SomeEndsWith(list, hostname) == \E i \in 1..Len(list) : endsWith(hostname, list[i])

\* the body of the try of isAllowed, given u = new URL(urlStr)
AllowedHost(u) ==
  IF ~u.ok THEN FALSE
  ELSE IF Len(ALLOWLIST) = 0 THEN TRUE
  ELSE SomeEndsWith(ALLOWLIST, u.hostname)

isAllowed(urlStr) == AllowedHost(ParseAbsolute(urlStr))

\* ---------------------------------------------------------- extractM3U8

\* A page is a sequence of nodes, as cheerio.load sees it:
\*   [kind |-> "el", tag, src, href, text]   an element (an absent attribute
\*                                            is <<>>: both are falsy and
\*                                            neither contains ".m3u8")
\*   [kind |-> "script", ..., text]           a script element and its text
\*   [kind |-> "text", ..., text]             character data
\* and the html text is its serialisation.
El(tag, src, hrefAttr) == [kind |-> "el", tag |-> tag, src |-> src, href |-> hrefAttr, text |-> <<>>]
Script(text) == [kind |-> "script", tag |-> "script", src |-> <<>>, href |-> <<>>, text |-> text]
Text(text) == [kind |-> "text", tag |-> "", src |-> <<>>, href |-> <<>>, text |-> text]

TagName(t) ==
  CASE t = "source" -> <<"s", "o", "u", "r", "c", "e">>
    [] t = "a" -> <<"a">>
    [] t = "video" -> <<"v", "i", "d", "e", "o">>
    [] t = "img" -> <<"i", "m", "g">>
    [] OTHER -> <<"d", "i", "v">>

SerializeNode(n) ==
  CASE n.kind = "el" ->
         <<"<">> \o TagName(n.tag)
         \o (IF n.src # <<>> THEN <<" ", "s", "r", "c", "=", "\"">> \o n.src \o <<"\"">> ELSE <<>>)
         \o (IF n.href # <<>> THEN <<" ", "h", "r", "e", "f", "=", "\"">> \o n.href \o <<"\"">> ELSE <<>>)
         \o <<">">>
    [] n.kind = "script" -> <<"<", "s", "c", "r", "i", "p", "t", ">">> \o n.text \o <<"<", "/", "s", "c", "r", "i", "p", "t", ">">>
    [] OTHER -> n.text

RECURSIVE Serialize(_)
Serialize(nodes) ==
  IF nodes = <<>> THEN <<>> ELSE SerializeNode(Head(nodes)) \o Serialize(Tail(nodes))

\* Set.prototype.add on an insertion-ordered Set (Array.from keeps the order)
SetAdd(set, x) == IF x \in Range(set) THEN set ELSE Append(set, x)

\* [^\s"'\\]
NotInClass == {" ", "\t", "\n", "\"", "'", "\\"}

\* /(https?:\/\/[^\s"'\\]+?\.m3u8[^\s"'\\]*)/gi at position i of text: the end
\* of the match (exclusive), or 0 when the expression does not match there.
\* The lazy class stops at the first ".m3u8" that follows at least one class
\* character, and the greedy class runs to the next excluded character.
PrefixEnd(text, i) ==
  IF MatchesAtCI(text, i, <<"h", "t", "t", "p", "s", ":", "/", "/">>) THEN i + 8
  ELSE IF MatchesAtCI(text, i, <<"h", "t", "t", "p", ":", "/", "/">>) THEN i + 7
  ELSE 0
ClassRun(text, p, lim) ==
  IF \E j \in (p + 1)..(lim - 5) : MatchesAtCI(text, j, <<".", "m", "3", "u", "8">>) THEN lim ELSE 0
AfterPrefix(text, p) ==
  IF p = 0 THEN 0 ELSE ClassRun(text, p, FirstOf(text, p, NotInClass))
MatchEnd(text, i) == AfterPrefix(text, PrefixEnd(text, i))

\* the successive matches of re.exec(text) from lastIndex i
RECURSIVE ExecAll(_, _)
ExecFrom(text, i, e) ==
  IF e = 0 THEN ExecAll(text, i + 1)
  ELSE <<SubSeq(text, i, e - 1)>> \o ExecAll(text, e)
ExecAll(text, i) ==
  IF i > Len(text) THEN <<>> ELSE ExecFrom(text, i, MatchEnd(text, i))

\* try { urls.add(new URL(m[1], baseUrl).href) } catch {}
TryAdd(urls, u) == IF u.ok THEN SetAdd(urls, href(u)) ELSE urls

\* the same for every match
RECURSIVE AddMatches(_, _, _)
AddMatches(urls, matches, baseUrl) ==
  IF matches = <<>> THEN urls
  ELSE AddMatches(TryAdd(urls, ParseURL(Head(matches), baseUrl)), Tail(matches), baseUrl)

\* $('source[src*=".m3u8"], a[href*=".m3u8"], video[src*=".m3u8"]')
Selected(n) ==
  /\ n.kind = "el"
  /\ \/ n.tag = "source" /\ includes(n.src, <<".", "m", "3", "u", "8">>)
     \/ n.tag = "a" /\ includes(n.href, <<".", "m", "3", "u", "8">>)
     \/ n.tag = "video" /\ includes(n.src, <<".", "m", "3", "u", "8">>)

\* const src = $(el).attr('src') || $(el).attr('href')
SrcOf(n) == IF n.src # <<>> THEN n.src ELSE n.href

\* The first pass: no try around new URL, so a candidate that does not
\* resolve throws out of extractM3U8.  [threw, urls]
RECURSIVE DomPass(_, _, _)
DomAdd(urls, nodes, baseUrl, u) ==
  IF ~u.ok THEN [threw |-> TRUE, urls |-> urls]
  ELSE DomPass(SetAdd(urls, href(u)), Tail(nodes), baseUrl)
DomPass(urls, nodes, baseUrl) ==
  IF nodes = <<>> THEN [threw |-> FALSE, urls |-> urls]
  ELSE IF ~Selected(Head(nodes)) \/ SrcOf(Head(nodes)) = <<>>
    THEN DomPass(urls, Tail(nodes), baseUrl)
  ELSE DomAdd(urls, nodes, baseUrl, ParseURL(SrcOf(Head(nodes)), baseUrl))

\* The second pass: the text of every script element.
RECURSIVE ScriptPass(_, _, _)
ScriptPass(urls, nodes, baseUrl) ==
  IF nodes = <<>> THEN urls
  ELSE ScriptPass(IF Head(nodes).kind = "script"
                  THEN AddMatches(urls, ExecAll(Head(nodes).text, 1), baseUrl)
                  ELSE urls,
                  Tail(nodes), baseUrl)

\* The third pass: the raw html.
RawPass(urls, html, baseUrl) == AddMatches(urls, ExecAll(html, 1), baseUrl)

\* the passes after the first, unless it threw
AfterDom(dom, nodes, baseUrl) ==
  IF dom.threw THEN dom
  ELSE [threw |-> FALSE,
        urls |-> RawPass(ScriptPass(dom.urls, nodes, baseUrl), Serialize(nodes), baseUrl)]

\* extractM3U8(html, baseUrl): [threw, urls]
extractM3U8(nodes, baseUrl) == AfterDom(DomPass(<<>>, nodes, baseUrl), nodes, baseUrl)

\* ----------------------------------------------------------------- best

\* (the expression without its i flag)
TokenTestCaseSensitive(u) ==
  \E i \in 1..Len(u) :
    \/ MatchesAt(u, i, <<"m", "a", "s", "t", "e", "r">>)
    \/ MatchesAt(u, i, <<"i", "n", "d", "e", "x">>)
    \/ MatchesAt(u, i, <<"p", "l", "a", "y", "l", "i", "s", "t">>)

\* /master|index|playlist/i.test(u)
TokenTest(u) ==
  \E i \in 1..Len(u) :
    \/ MatchesAtCI(u, i, <<"m", "a", "s", "t", "e", "r">>)
    \/ MatchesAtCI(u, i, <<"i", "n", "d", "e", "x">>)
    \/ MatchesAtCI(u, i, <<"p", "l", "a", "y", "l", "i", "s", "t">>)

\* Array.prototype.find: <<the first element passing the test>>, or <<>>
find(urls) ==
  IF \A i \in 1..Len(urls) : ~TokenTest(urls[i]) THEN <<>>
  ELSE <<urls[CHOOSE i \in 1..Len(urls) :
                /\ TokenTest(urls[i])
                /\ \A k \in 1..(i - 1) : ~TokenTest(urls[k])]>>

\* a || b on optional strings: undefined and "" are falsy
OrElse(a, b) == IF a # <<>> /\ a[1] # <<>> THEN a ELSE b

\* urls.find(...) || urls[0] || null   (null is <<>>, a url u is <<u>>)
SelectBest(urls) ==
  OrElse(OrElse(find(urls), IF Len(urls) > 0 THEN <<urls[1]>> ELSE <<>>), <<>>)

\* --------------------------------------------------------------- inputs

MaxReq == 2        \* concurrent requests

Reqs == 1..MaxReq

Variants == {"static_literal", "static_env", "rendered"}

\* the values of process.env.ALLOWLIST tried
EnvPool == { <<>>, <<<<"e", "x", "a", "m", "p", "l", "e", ".", "c", "o", "m", ",", " ", "c", "d", "n", ".", "t", "e", "s", "t">>>> }

\* const ALLOWLIST = [ ] in the first variant, from the environment in the others
AllowlistOf(v) ==
  IF v = "static_literal" THEN { <<>> }
  ELSE { AllowlistFromEnv(e) : e \in EnvPool }

\* req.query.url and req.query.src: absent, unparseable, allowed, not allowed
QueryPool == { <<>>, <<<<"n", "o", "t", " ", "a", " ", "u", "r", "l">>>>, <<<<"h", "t", "t", "p", "s", ":", "/", "/", "e", "x", "a", "m", "p", "l", "e", ".", "c", "o", "m", "/", "w", "a", "t", "c", "h">>>>,
               <<<<"h", "t", "t", "p", "s", ":", "/", "/", "o", "t", "h", "e", "r", ".", "c", "o", "m", "/", "v">>>> }

\* req.headers['range']
RangePool == { <<>>, <<<<"b", "y", "t", "e", "s", "=", "0", "-", "9", "9">>>> }

\* The pages a fetch or a render may return: response.data (the nodes),
\* response.request.res.responseUrl (<<>> when there is none) and, in a
\* browser, the requests the page makes while it loads, in order.
Pages == <<
  [responseUrl |-> <<>>,
   nodes |-> << Text(<<"h", "e", "l", "l", "o">>) >>,
   requests |-> <<>>],
  [responseUrl |-> <<"h", "t", "t", "p", "s", ":", "/", "/", "h", ".", "t", "e", "s", "t", "/", "p">>,
   nodes |-> << El("source", <<"/", "a", ".", "m", "3", "u", "8">>, <<>>),
                Script(<<"v", "a", "r", " ", "u", " ", "=", " ", "\"", "h", "t", "t", "p", "s", ":", "/", "/", "c", "d", "n", ".", "t", "e", "s", "t", "/", "x", "/", "m", "a", "s", "t", "e", "r", ".", "m", "3", "u", "8", "?", "t", "=", "1", "\"", ";">>) >>,
   requests |-> << <<"h", "t", "t", "p", "s", ":", "/", "/", "c", "d", "n", ".", "t", "e", "s", "t", "/", "a", "p", "p", ".", "j", "s">> >>],
  [responseUrl |-> <<>>,
   nodes |-> << El("source", <<"h", "t", "t", "p", ":", "/", "/", "[", "b", "a", "d", ".", "m", "3", "u", "8">>, <<>>),
                Script(<<"p", "l", "a", "y", "(", "'", "h", "t", "t", "p", "s", ":", "/", "/", "c", "d", "n", ".", "t", "e", "s", "t", "/", "s", "e", "g", "1", ".", "m", "3", "u", "8", "'", ")">>) >>,
   requests |-> << <<"h", "t", "t", "p", "s", ":", "/", "/", "c", "d", "n", ".", "t", "e", "s", "t", "/", "s", "e", "g", "1", ".", "m", "3", "u", "8">> >>],
  [responseUrl |-> <<>>,
   nodes |-> << Script(<<"a", "=", "'", "h", "t", "t", "p", ":", "/", "/", "[", "b", "a", "d", ".", "m", "3", "u", "8", "'", " ", "b", "=", "'", "h", "t", "t", "p", "s", ":", "/", "/", "c", "d", "n", ".", "t", "e", "s", "t", "/", "s", "e", "g", "1", ".", "m", "3", "u", "8", "'">>),
                Text(<<" ", "H", "T", "T", "P", "S", ":", "/", "/", "C", "D", "N", ".", "t", "e", "s", "t", "/", "v", "/", "P", "l", "a", "y", "L", "i", "s", "t", ".", "M", "3", "U", "8", " ", "h", "t", "t", "p", ":", "/", "/", "[", "x", ".", "m", "3", "u", "8", " ">>) >>,
   requests |-> << <<"h", "t", "t", "p", "s", ":", "/", "/", "c", "d", "n", ".", "t", "e", "s", "t", "/", "s", "e", "g", "1", ".", "m", "3", "u", "8">>, <<"h", "t", "t", "p", "s", ":", "/", "/", "c", "d", "n", ".", "t", "e", "s", "t", "/", "v", "/", "I", "n", "d", "e", "x", ".", "m", "3", "u", "8">>,
                   <<"h", "t", "t", "p", "s", ":", "/", "/", "c", "d", "n", ".", "t", "e", "s", "t", "/", "s", "e", "g", "1", ".", "m", "3", "u", "8">> >>]
>>

\* err.message of a failed axios GET or puppeteer call ("": no message)
ScrapeFaults == { "timeout exceeded", "" }

StatusText(s) ==
  CASE s = 404 -> <<"4", "0", "4">>
    [] s = 500 -> <<"5", "0", "0">>
    [] OTHER -> <<"0">>

\* what upstream may answer to the GET of /proxy
UpstreamAnswers ==
  { [kind |-> "response", status |-> s, message |-> <<>>] : s \in {200, 206, 404, 500} }
  \cup
  { [kind |-> "error", status |-> 0, message |-> m] :
      m \in { <<"t", "i", "m", "e", "o", "u", "t", " ", "o", "f", " ", "2", "0", "0", "0", "0", "m", "s", " ", "e", "x", "c", "e", "e", "d", "e", "d">>, <<"M", "a", "x", "i", "m", "u", "m", " ", "n", "u", "m", "b", "e", "r", " ", "o", "f", " ", "r", "e", "d", "i", "r", "e", "c", "t", "s", " ", "e", "x", "c", "e", "e", "d", "e", "d">>, <<>> } }

\* the arguments of the direct calls of isAllowed
GuardLists == { <<>>, <<<<"e", "x", "a", "m", "p", "l", "e", ".", "c", "o", "m">>>>, <<<<"e", "x", "a", "m", "p", "l", "e", ".", "c", "o", "m">>, <<"c", "d", "n", ".", "t", "e", "s", "t">>>>,
                AllowlistFromEnv(<<<<" ", "s", "u", "b", ".", "e", "x", "a", "m", "p", "l", "e", ".", "c", "o", "m", " ", ",", "o", "t", "h", "e", "r", ".", "c", "o", "m">>>>) }
GuardUrls == { <<"n", "o", "t", " ", "a", " ", "u", "r", "l">>, <<"h", "t", "t", "p", ":", "/", "/", "[", "b", "a", "d">>, <<"/", "r", "e", "l", "a", "t", "i", "v", "e", "/", "p", "a", "t", "h">>,
               <<"h", "t", "t", "p", "s", ":", "/", "/", "e", "x", "a", "m", "p", "l", "e", ".", "c", "o", "m", "/", "x">>, <<"h", "t", "t", "p", "s", ":", "/", "/", "s", "u", "b", ".", "e", "x", "a", "m", "p", "l", "e", ".", "c", "o", "m", "/", "x">>,
               <<"h", "t", "t", "p", "s", ":", "/", "/", "E", "X", "A", "M", "P", "L", "E", ".", "c", "o", "m", ":", "8", "0", "8", "0", "/", "x">>, <<"h", "t", "t", "p", "s", ":", "/", "/", "e", "x", "a", "m", "p", "l", "e", ".", "c", "o", "m", ".", "e", "v", "i", "l", ".", "c", "o", "m", "/", "x">>,
               <<"h", "t", "t", "p", "s", ":", "/", "/", "e", "v", "i", "l", "-", "e", "x", "a", "m", "p", "l", "e", ".", "c", "o", "m", "/", "x">>, <<"h", "t", "t", "p", "s", ":", "/", "/", "n", "o", "t", "e", "x", "a", "m", "p", "l", "e", ".", "c", "o", "m", "/", "x">>,
               <<"h", "t", "t", "p", "s", ":", "/", "/", "o", "t", "h", "e", "r", ".", "c", "o", "m", "/", "x">>, <<"h", "t", "t", "p", "s", ":", "/", "/", "c", "d", "n", ".", "t", "e", "s", "t", "/", "a", ".", "m", "3", "u", "8">>,
               <<"h", "t", "t", "p", "s", ":", "/", "/", "e", "v", "i", "l", ".", "c", "o", "m", "/", "e", "x", "a", "m", "p", "l", "e", ".", "c", "o", "m">>, <<"h", "t", "t", "p", "s", ":", "/", "/", "e", "x", "a", "m", "p", "l", "e", ".", "c", "o", "m", "@", "e", "v", "i", "l", ".", "c", "o", "m", "/", "x">>,
               <<"H", "T", "T", "P", ":", "/", "/", "S", "u", "b", ".", "E", "x", "a", "m", "p", "l", "e", ".", "C", "O", "M">> }

\* ------------------------------------------------------------ responses

NoRes == [sent |-> 0, status |-> 200, ok |-> "absent", error |-> "", page |-> <<>>,
          m3u8Urls |-> <<>>, best |-> <<>>, body |-> <<>>, ended |-> FALSE]

\* res.status(s).json({ ok?, error })
JsonError(prev, s, ok, error) ==
  [prev EXCEPT !.sent = @ + 1, !.status = s, !.ok = ok, !.error = error, !.ended = TRUE]

\* res.json({ ok: true, page, meta, m3u8Urls, best })
JsonOk(prev, page, urls, best) ==
  [prev EXCEPT !.sent = @ + 1, !.ok = "true", !.page = page, !.m3u8Urls = urls,
               !.best = best, !.ended = TRUE]

\* res.status(s).send(text)
Send(prev, s, text) ==
  [prev EXCEPT !.sent = @ + 1, !.status = s, !.body = text, !.ended = TRUE]

\* err.message || fallback
MessageOr(message, fallback) == IF message = "" THEN fallback ELSE message

NoUpstream == [state |-> "none", status |-> 0, range |-> <<>>]

\* ----------------------------------------------------------- validation

\* (the guard left out)
ValidateUnguarded(q) == IF q = <<>> \/ q[1] = <<>> THEN "400" ELSE "pass"

\* if (!target) return 400; if (!isAllowed(target)) return 403;
Validate(q) ==
  IF q = <<>> \/ q[1] = <<>> THEN "400"
  ELSE IF ~isAllowed(q[1]) THEN "403"
  ELSE "pass"

\* ------------------------------------------------------- /scrape, static

\* The handler up to its await: server.js 89-95 and 260-266.  The 400 and
\* 403 bodies carry no `ok` field in these two variants.
ScrapeStatic(r) ==
  /\ variant \in {"static_literal", "static_env"}
  /\ pc[r] = "idle"
  /\ \E q \in QueryPool :
       /\ endpoint' = [endpoint EXCEPT ![r] = "/scrape"]
       /\ query' = [query EXCEPT ![r] = q]
       /\ CASE Validate(q) = "400" ->
                 /\ res' = [res EXCEPT ![r] = JsonError(@, 400, "absent", "Missing ?url=")]
                 /\ pc' = [pc EXCEPT ![r] = "done"]
                 /\ UNCHANGED calls
            [] Validate(q) = "403" ->
                 /\ res' = [res EXCEPT ![r] = JsonError(@, 403, "absent", "Domain not allowed")]
                 /\ pc' = [pc EXCEPT ![r] = "done"]
                 /\ UNCHANGED calls
            [] OTHER ->
                 /\ calls' = [calls EXCEPT ![r] = Append(@, "axios.get")]
                 /\ pc' = [pc EXCEPT ![r] = "await_get"]
                 /\ UNCHANGED res
  /\ UNCHANGED <<variant, ALLOWLIST, range, fetched, fired, browser, browsers, m3u8Urls,
                 upstream, clientGone, gUrl, gOut>>

\* response.request?.res?.responseUrl || target
BaseUrl(k, target) == IF Pages[k].responseUrl # <<>> THEN Pages[k].responseUrl ELSE target

\* server.js 109-128: the answer once extractM3U8 returned ex or threw
Scraped(prev, baseUrl, ex) ==
  IF ex.threw THEN JsonError(prev, 500, "false", MessageOr("Invalid URL", "Fetch failed"))
  ELSE JsonOk(prev, baseUrl, ex.urls, SelectBest(ex.urls))

\* axios.get resolved with page k: server.js 107-122 and 277-283; a throw of
\* extractM3U8 lands in the catch of 123-128.
ScrapeGetResolve(r) ==
  /\ pc[r] = "await_get"
  /\ \E k \in 1..Len(Pages) :
       /\ fetched' = [fetched EXCEPT ![r] = k]
       /\ res' = [res EXCEPT ![r] =
                    Scraped(@, BaseUrl(k, query[r][1]),
                            extractM3U8(Pages[k].nodes, BaseUrl(k, query[r][1])))]
  /\ pc' = [pc EXCEPT ![r] = "done"]
  /\ UNCHANGED <<variant, ALLOWLIST, endpoint, query, range, calls, fired, browser,
                 browsers, m3u8Urls, upstream, clientGone, gUrl, gOut>>

\* axios.get rejected (network error, timeout, redirect limit, status): the catch
ScrapeGetReject(r) ==
  /\ pc[r] = "await_get"
  /\ \E m \in ScrapeFaults :
       res' = [res EXCEPT ![r] = JsonError(@, 500, "false", MessageOr(m, "Fetch failed"))]
  /\ pc' = [pc EXCEPT ![r] = "done"]
  /\ UNCHANGED <<variant, ALLOWLIST, endpoint, query, range, calls, fetched, fired, browser,
                 browsers, m3u8Urls, upstream, clientGone, gUrl, gOut>>

\* ----------------------------------------------------- /scrape, rendered

\* `browser` is a local of the handler: each request reads its own
BrowserOf(r) == browser[r]

\* (no finally: the handler returns after the try and the catch)
NoFinally(b) == "done"

\* finally { if (browser) await browser.close(); }
FinallyPc(b) == IF b # 0 THEN "await_close" ELSE "done"

\* the request r calls a method of browser process b
Use(bs, b, r) == IF b = 0 THEN bs ELSE [bs EXCEPT ![b].users = @ \cup {r}]

\* a throw inside the try: the catch answers 500, then the finally runs (the
\* page and the Set of the try block are out of scope)
Caught(r, m) ==
  /\ m3u8Urls' = [m3u8Urls EXCEPT ![r] = <<>>]
  /\ fetched' = [fetched EXCEPT ![r] = 0]
  /\ fired' = [fired EXCEPT ![r] = 0]
  /\ res' = [res EXCEPT ![r] = JsonError(@, 500, "false", MessageOr(m, "Puppeteer failed"))]
  /\ pc' = [pc EXCEPT ![r] = FinallyPc(BrowserOf(r))]
  /\ browsers' = Use(browsers, BrowserOf(r), r)
  /\ calls' = [calls EXCEPT ![r] =
                 IF FinallyPc(BrowserOf(r)) = "await_close" THEN Append(@, "browser.close") ELSE @]

\* The handler up to its first await: part_000 43-54.
ScrapeRendered(r) ==
  /\ variant = "rendered"
  /\ pc[r] = "idle"
  /\ \E q \in QueryPool :
       /\ endpoint' = [endpoint EXCEPT ![r] = "/scrape"]
       /\ query' = [query EXCEPT ![r] = q]
       /\ CASE Validate(q) = "400" ->
                 /\ res' = [res EXCEPT ![r] = JsonError(@, 400, "false", "Missing ?url=")]
                 /\ pc' = [pc EXCEPT ![r] = "done"]
                 /\ UNCHANGED calls
            [] Validate(q) = "403" ->
                 /\ res' = [res EXCEPT ![r] = JsonError(@, 403, "false", "Domain not allowed")]
                 /\ pc' = [pc EXCEPT ![r] = "done"]
                 /\ UNCHANGED calls
            [] OTHER ->
                 /\ calls' = [calls EXCEPT ![r] = Append(@, "puppeteer.launch")]
                 /\ pc' = [pc EXCEPT ![r] = "await_launch"]
                 /\ UNCHANGED res
  /\ UNCHANGED <<variant, ALLOWLIST, range, fetched, fired, browser, browsers, m3u8Urls,
                 upstream, clientGone, gUrl, gOut>>

\* puppeteer.launch resolved with a new browser process; browser.newPage() is called
LaunchResolve(r) ==
  /\ pc[r] = "await_launch"
  /\ browsers' = [browsers EXCEPT ![r] = [state |-> "open", users |-> {r}]]
  /\ browser' = [browser EXCEPT ![r] = r]
  /\ pc' = [pc EXCEPT ![r] = "await_newPage"]
  /\ UNCHANGED <<variant, ALLOWLIST, endpoint, query, range, calls, res, fetched, fired,
                 m3u8Urls, upstream, clientGone, gUrl, gOut>>

\* puppeteer.launch rejected: `browser` is still undefined in the finally
LaunchReject(r) ==
  /\ pc[r] = "await_launch"
  /\ \E m \in ScrapeFaults : Caught(r, m)
  /\ UNCHANGED <<variant, ALLOWLIST, endpoint, query, range, browser,
                 upstream, clientGone, gUrl, gOut>>

\* newPage resolved: the Set is created, the observer registered and
\* page.goto(target) called; the browser starts loading page k
NewPageResolve(r) ==
  /\ pc[r] = "await_newPage"
  /\ m3u8Urls' = [m3u8Urls EXCEPT ![r] = <<>>]
  /\ \E k \in 1..Len(Pages) : fetched' = [fetched EXCEPT ![r] = k]
  /\ calls' = [calls EXCEPT ![r] = Append(@, "page.goto")]
  /\ pc' = [pc EXCEPT ![r] = "await_goto"]
  /\ UNCHANGED <<variant, ALLOWLIST, endpoint, query, range, res, fired, browser,
                 browsers, upstream, clientGone, gUrl, gOut>>

\* page.on('request', ...): if (url.includes('.m3u8')) m3u8Urls.add(url)
Observed(set, url) == IF includes(url, <<".", "m", "3", "u", "8">>) THEN SetAdd(set, url) ELSE set

\* the loading page makes its next request, during the navigation or the
\* settle delay, and the observer runs
Observe(r) ==
  /\ pc[r] \in {"await_goto", "await_wait"}
  /\ fired[r] < Len(Pages[fetched[r]].requests)
  /\ fired' = [fired EXCEPT ![r] = @ + 1]
  /\ m3u8Urls' = [m3u8Urls EXCEPT ![r] = Observed(@, Pages[fetched[r]].requests[fired[r] + 1])]
  /\ UNCHANGED <<variant, ALLOWLIST, pc, endpoint, query, range, calls, res, fetched,
                 browser, browsers, upstream, clientGone, gUrl, gOut>>

\* page.goto resolved; page.waitForTimeout(5000) is called
GotoResolve(r) ==
  /\ pc[r] = "await_goto"
  /\ pc' = [pc EXCEPT ![r] = "await_wait"]
  /\ UNCHANGED <<variant, ALLOWLIST, endpoint, query, range, calls, res, fetched, fired,
                 browser, browsers, m3u8Urls, upstream, clientGone, gUrl, gOut>>

\* the settle delay is over: page.url() is read and page.content() called
WaitResolve(r) ==
  /\ pc[r] = "await_wait"
  /\ pc' = [pc EXCEPT ![r] = "await_content"]
  /\ UNCHANGED <<variant, ALLOWLIST, endpoint, query, range, calls, res, fetched, fired,
                 browser, browsers, m3u8Urls, upstream, clientGone, gUrl, gOut>>

\* the candidate list of the rendered variant: Array.from(m3u8Urls); the
\* html is read for the metadata and the log only
RenderedUrls(set, nodes, finalUrl) == set

\* page.content() resolved: part_000 67-91, then the finally (the page and
\* the Set of the try block are out of scope)
ContentResolve(r) ==
  /\ pc[r] = "await_content"
  /\ res' = [res EXCEPT ![r] =
               JsonOk(@, BaseUrl(fetched[r], query[r][1]),
                      RenderedUrls(m3u8Urls[r], Pages[fetched[r]].nodes,
                                   BaseUrl(fetched[r], query[r][1])),
                      SelectBest(RenderedUrls(m3u8Urls[r], Pages[fetched[r]].nodes,
                                              BaseUrl(fetched[r], query[r][1]))))]
  /\ m3u8Urls' = [m3u8Urls EXCEPT ![r] = <<>>]
  /\ fetched' = [fetched EXCEPT ![r] = 0]
  /\ fired' = [fired EXCEPT ![r] = 0]
  /\ pc' = [pc EXCEPT ![r] = FinallyPc(BrowserOf(r))]
  /\ browsers' = Use(browsers, BrowserOf(r), r)
  /\ calls' = [calls EXCEPT ![r] =
                 IF FinallyPc(BrowserOf(r)) = "await_close" THEN Append(@, "browser.close") ELSE @]
  /\ UNCHANGED <<variant, ALLOWLIST, endpoint, query, range, browser,
                 upstream, clientGone, gUrl, gOut>>

\* newPage, goto, waitForTimeout or content rejected (or threw)
RenderReject(r) ==
  /\ pc[r] \in {"await_newPage", "await_goto", "await_wait", "await_content"}
  /\ \E m \in ScrapeFaults : Caught(r, m)
  /\ UNCHANGED <<variant, ALLOWLIST, endpoint, query, range, browser,
                 upstream, clientGone, gUrl, gOut>>

\* browser.close() resolved: the process is gone and the handler returns
CloseResolve(r) ==
  /\ pc[r] = "await_close"
  /\ browsers' = [browsers EXCEPT ![BrowserOf(r)].state = "closed"]
  /\ pc' = [pc EXCEPT ![r] = "done"]
  /\ UNCHANGED <<variant, ALLOWLIST, endpoint, query, range, calls, res, fetched, fired,
                 browser, m3u8Urls, upstream, clientGone, gUrl, gOut>>

\* --------------------------------------------------------------- /proxy

\* (every status below 500 accepted)
validateStatusBelow500(s) == s >= 200 /\ s < 500

\* validateStatus: s => s >= 200 && s < 400
validateStatus(s) == s >= 200 /\ s < 400

\* the message of the error axios rejects with
RejectMessage(ans) ==
  IF ans.kind = "response"
  THEN <<"R", "e", "q", "u", "e", "s", "t", " ", "f", "a", "i", "l", "e", "d", " ", "w", "i", "t", "h", " ", "s", "t", "a", "t", "u", "s", " ", "c", "o", "d", "e", " ">> \o StatusText(ans.status)
  ELSE ans.message

\* `Upstream error: ${err.message || 'Bad gateway'}`
UpstreamErrorBody(message) ==
  <<"U", "p", "s", "t", "r", "e", "a", "m", " ", "e", "r", "r", "o", "r", ":", " ">> \o (IF message = <<>> THEN <<"B", "a", "d", " ", "g", "a", "t", "e", "w", "a", "y">> ELSE message)

\* upstream.data.pipe(res): nothing sets res.statusCode, so the head goes out
\* with the default status, whatever upstream answered
PipedStatus(prev, upstreamStatus) == prev.status

\* pipe() on 'close' of the destination: the source is unpiped, not destroyed
OnDestClose(state) == state

\* The handler up to its await: server.js 132-151, 289-307, part_000 100-117.
Proxy(r) ==
  /\ pc[r] = "idle"
  /\ \E q \in QueryPool, rg \in RangePool :
       /\ endpoint' = [endpoint EXCEPT ![r] = "/proxy"]
       /\ query' = [query EXCEPT ![r] = q]
       /\ range' = [range EXCEPT ![r] = rg]
       /\ CASE Validate(q) = "400" ->
                 /\ res' = [res EXCEPT ![r] = Send(@, 400, <<"M", "i", "s", "s", "i", "n", "g", " ", "?", "s", "r", "c", "=">>)]
                 /\ pc' = [pc EXCEPT ![r] = "done"]
                 /\ UNCHANGED <<calls, upstream>>
            [] Validate(q) = "403" ->
                 /\ res' = [res EXCEPT ![r] = Send(@, 403, <<"D", "o", "m", "a", "i", "n", " ", "n", "o", "t", " ", "a", "l", "l", "o", "w", "e", "d">>)]
                 /\ pc' = [pc EXCEPT ![r] = "done"]
                 /\ UNCHANGED <<calls, upstream>>
            [] OTHER ->
                 /\ calls' = [calls EXCEPT ![r] = Append(@, "axios.get")]
                 /\ upstream' = [upstream EXCEPT ![r] = [@ EXCEPT !.state = "requested", !.range = rg]]
                 /\ pc' = [pc EXCEPT ![r] = "await_upstream"]
                 /\ UNCHANGED res
  /\ UNCHANGED <<variant, ALLOWLIST, fetched, fired, browser, browsers, m3u8Urls,
                 clientGone, gUrl, gOut>>

\* axios.get settled: resolved when validateStatus accepts the status (the
\* headers are mirrored and the body piped), rejected otherwise (the catch).
ProxySettle(r) ==
  /\ pc[r] = "await_upstream"
  /\ \E ans \in UpstreamAnswers :
       IF ans.kind = "response" /\ validateStatus(ans.status)
       THEN /\ upstream' = [upstream EXCEPT ![r] = [@ EXCEPT !.state = "open", !.status = ans.status]]
            /\ res' = [res EXCEPT ![r] =
                         [@ EXCEPT !.sent = @ + 1, !.status = PipedStatus(res[r], ans.status)]]
            /\ pc' = [pc EXCEPT ![r] = "piping"]
       ELSE /\ upstream' = [upstream EXCEPT ![r] = [@ EXCEPT !.state = "failed", !.status = ans.status]]
            /\ res' = [res EXCEPT ![r] = Send(@, 502, UpstreamErrorBody(RejectMessage(ans)))]
            /\ pc' = [pc EXCEPT ![r] = "done"]
  /\ UNCHANGED <<variant, ALLOWLIST, endpoint, query, range, calls, fetched, fired, browser,
                 browsers, m3u8Urls, clientGone, gUrl, gOut>>

\* the upstream body ends: pipe() ends the response
PipeEnd(r) ==
  /\ pc[r] = "piping"
  /\ upstream' = [upstream EXCEPT ![r].state = "ended"]
  /\ res' = [res EXCEPT ![r].ended = TRUE]
  /\ pc' = [pc EXCEPT ![r] = "done"]
  /\ UNCHANGED <<variant, ALLOWLIST, endpoint, query, range, calls, fetched, fired, browser,
                 browsers, m3u8Urls, clientGone, gUrl, gOut>>

\* the caller disconnects before the body is complete: res emits 'close'
ClientClose(r) ==
  /\ pc[r] = "piping"
  /\ clientGone' = [clientGone EXCEPT ![r] = TRUE]
  /\ upstream' = [upstream EXCEPT ![r].state = OnDestClose(@)]
  /\ pc' = [pc EXCEPT ![r] = "unpiped"]
  /\ UNCHANGED <<variant, ALLOWLIST, endpoint, query, range, calls, res, fetched, fired,
                 browser, browsers, m3u8Urls, gUrl, gOut>>

\* -------------------------------------------------------- specification

Idle ==
  /\ pc = [r \in Reqs |-> "idle"]
  /\ endpoint = [r \in Reqs |-> "none"]
  /\ query = [r \in Reqs |-> <<>>]
  /\ range = [r \in Reqs |-> <<>>]
  /\ calls = [r \in Reqs |-> <<>>]
  /\ res = [r \in Reqs |-> NoRes]
  /\ fetched = [r \in Reqs |-> 0]
  /\ fired = [r \in Reqs |-> 0]
  /\ browser = [r \in Reqs |-> 0]
  /\ browsers = [r \in Reqs |-> [state |-> "none", users |-> {}]]
  /\ m3u8Urls = [r \in Reqs |-> <<>>]
  /\ upstream = [r \in Reqs |-> NoUpstream]
  /\ clientGone = [r \in Reqs |-> FALSE]

Init ==
  /\ variant \in Variants
  /\ ALLOWLIST \in AllowlistOf(variant)
  /\ Idle
  /\ gUrl = <<>>
  /\ gOut = "none"

\* the static /scrape handler
ServeStatic(r) ==
  \/ ScrapeStatic(r)
  \/ ScrapeGetResolve(r)
  \/ ScrapeGetReject(r)

\* the rendered /scrape handler and the browser it drives
ServeRendered(r) ==
  \/ ScrapeRendered(r)
  \/ LaunchResolve(r)
  \/ LaunchReject(r)
  \/ NewPageResolve(r)
  \/ Observe(r)
  \/ GotoResolve(r)
  \/ WaitResolve(r)
  \/ ContentResolve(r)
  \/ RenderReject(r)
  \/ CloseResolve(r)

\* the /proxy handler and the pipe it leaves behind
ServeProxy(r) ==
  \/ Proxy(r)
  \/ ProxySettle(r)
  \/ PipeEnd(r)
  \/ ClientClose(r)

\* The handlers share nothing but the read-only ALLOWLIST and, through
\* puppeteer, the set of running browser processes.  Spec follows one
\* request through every handler of every variant; SpecRender runs MaxReq
\* rendered requests concurrently.
First == CHOOSE r \in Reqs : \A q \in Reqs : r <= q

Next == ServeStatic(First) \/ ServeRendered(First) \/ ServeProxy(First)

Spec == Init /\ [][Next]_vars

InitRender ==
  /\ variant = "rendered"
  /\ ALLOWLIST \in AllowlistOf(variant) \ { <<>> }
  /\ Idle
  /\ gUrl = <<>>
  /\ gOut = "none"

NextRender == \E r \in Reqs : ServeRendered(r)

SpecRender == InitRender /\ [][NextRender]_vars

\* isAllowed called directly on every pair of an allowlist and a URL text
InitGuard ==
  /\ variant = "static_env"
  /\ ALLOWLIST \in GuardLists
  /\ Idle
  /\ gUrl \in GuardUrls
  /\ gOut = "none"

GuardCall ==
  /\ \E u \in GuardUrls :
       /\ gUrl' = u
       /\ gOut' = IF isAllowed(u) THEN "allowed" ELSE "denied"
  /\ UNCHANGED <<variant, ALLOWLIST, pc, endpoint, query, range, calls, res, fetched, fired,
                 browser, browsers, m3u8Urls, upstream, clientGone>>

SpecGuard == InitGuard /\ [][GuardCall]_vars

\* --------------------------------------------------------------- claims

Count(seq, x) == Cardinality({ i \in 1..Len(seq) : seq[i] = x })

\* the target of request r was given and the guard denies it
Denied(r) == endpoint[r] # "none" /\ query[r] # <<>> /\ ~isAllowed(query[r][1])

\* C1: a /scrape or /proxy request whose target isAllowed denies starts no
\* fetch of any kind (no axios GET, no browser launch, no navigation, no
\* upstream response) and ends with one 403 response.
C1_DeniedNeverFetches ==
  \A r \in Reqs :
    Denied(r) =>
      /\ calls[r] = <<>>
      /\ browser[r] = 0
      /\ fetched[r] = 0
      /\ upstream[r].state = "none"
      /\ browsers[r].state = "none"
      /\ pc[r] = "done"
      /\ res[r].sent = 1
      /\ res[r].status = 403

\* a well-formed target refused by a configured allowlist, on /proxy
C1_Witness ==
  \E r \in Reqs :
    /\ Denied(r)
    /\ endpoint[r] = "/proxy"
    /\ ALLOWLIST # <<>>
    /\ ParseAbsolute(query[r][1]).ok
    /\ res[r].status = 403

\* host is the configured domain d or a subdomain of it
DomainOrSubdomain(host, d) == host = d \/ endsWith(host, <<".">> \o d)

\* C2: isAllowed denies every unparseable URL, allows every parseable URL
\* under an empty allow-set, and otherwise allows a URL exactly when its
\* hostname is a configured domain or a subdomain of one.
C2_BoundaryRespectingGuard ==
  gOut # "none" =>
    ( gOut = "allowed" <=>
        /\ ParseAbsolute(gUrl).ok
        /\ \/ ALLOWLIST = <<>>
           \/ \E i \in 1..Len(ALLOWLIST) :
                DomainOrSubdomain(ParseAbsolute(gUrl).hostname, ALLOWLIST[i]) )

\* the text u holds master, index or playlist in any case
HasToken(u) ==
  \E t \in { <<"m", "a", "s", "t", "e", "r">>, <<"i", "n", "d", "e", "x">>, <<"p", "l", "a", "y", "l", "i", "s", "t">> } :
    \E i \in 1..Len(u) :
      /\ i + Len(t) - 1 <= Len(u)
      /\ toLowerCase(SubSeq(u, i, i + Len(t) - 1)) = t

\* b is the selection the claim describes for the list
IsBestOf(b, list) ==
  IF list = <<>> THEN b = <<>>
  ELSE /\ Len(b) = 1
       /\ \E i \in 1..Len(list) :
            /\ list[i] = b[1]
            /\ \A k \in 1..(i - 1) : ~HasToken(list[k])
            /\ HasToken(list[i]) \/ (i = 1 /\ \A k \in 1..Len(list) : ~HasToken(list[k]))

\* C3: in every successful /scrape response `best` is the first candidate of
\* m3u8Urls holding master, index or playlist (any case), else the first
\* candidate, else null; so it is null exactly when the list is empty and
\* otherwise an element of the list.
C3_BestIsFirstTokenElseFirst ==
  \A r \in Reqs :
    res[r].ok = "true" =>
      /\ IsBestOf(res[r].best, res[r].m3u8Urls)
      /\ (res[r].best = <<>>) <=> (res[r].m3u8Urls = <<>>)
      /\ res[r].best # <<>> => res[r].best[1] \in Range(res[r].m3u8Urls)

\* a token-bearing candidate chosen over an earlier candidate without token,
\* the token in another case than the expression spells it
C3_Witness ==
  \E r \in Reqs :
    /\ res[r].ok = "true"
    /\ Len(res[r].m3u8Urls) >= 2
    /\ res[r].best = <<res[r].m3u8Urls[2]>>
    /\ ~TokenTestCaseSensitive(res[r].m3u8Urls[2])

\* C4: on /proxy, once the upstream fetch succeeded the status of the
\* response to the caller is the upstream status (206 stays 206).
C4_StatusMirrorsUpstream ==
  \A r \in Reqs :
    (endpoint[r] = "/proxy" /\ upstream[r].state \in {"open", "ended"}) =>
      res[r].status = upstream[r].status

\* request r has an upstream answer that is a failure: an error, or a status
\* outside [200,400)
UpstreamFailed(r) ==
  /\ endpoint[r] = "/proxy"
  /\ upstream[r].state \in {"open", "ended", "failed"}
  /\ ~(upstream[r].status >= 200 /\ upstream[r].status < 400)

\* C5: on /proxy every upstream failure (error, timeout, redirect limit, a
\* status outside [200,400)) yields exactly one response, 502, whose text
\* starts with "Upstream error:", after exactly one upstream request.
C5_UpstreamFailureIs502 ==
  \A r \in Reqs :
    UpstreamFailed(r) =>
      /\ pc[r] = "done"
      /\ res[r].sent = 1
      /\ res[r].status = 502
      /\ startsWith(res[r].body, <<"U", "p", "s", "t", "r", "e", "a", "m", " ", "e", "r", "r", "o", "r", ":">>)
      /\ Count(calls[r], "axios.get") = 1
      /\ Len(calls[r]) = 1

\* an upstream 404 answered as 502
C5_Witness ==
  \E r \in Reqs :
    /\ UpstreamFailed(r)
    /\ upstream[r].status = 404
    /\ res[r].status = 502

\* C6: whatever candidates the fetched page holds, extractM3U8 does not throw:
\* /scrape answers 200 and the candidates that do resolve are all collected.
C6_MalformedCandidateDiscarded ==
  \A r \in Reqs :
    (variant # "rendered" /\ endpoint[r] = "/scrape" /\ fetched[r] # 0) =>
      /\ res[r].status = 200
      /\ res[r].ok = "true"
      /\ Range(RawPass(<<>>, Serialize(Pages[fetched[r]].nodes),
                       BaseUrl(fetched[r], query[r][1])))
           \subseteq Range(res[r].m3u8Urls)

\* C7: in rendered mode, when the handler answers after reading the rendered
\* html, every manifest URL of that html is in the m3u8Urls of the response,
\* requested on the network or not.
C7_RenderedHtmlCandidatesListed ==
  [][ \A r \in Reqs :
        (variant = "rendered" /\ pc[r] = "await_content" /\ res'[r].ok = "true") =>
          Range(RawPass(<<>>, Serialize(Pages[fetched[r]].nodes),
                        BaseUrl(fetched[r], query[r][1])))
            \subseteq Range(res'[r].m3u8Urls) ]_vars

\* C8: every /scrape response carries a boolean `ok` that agrees with its
\* status (400, 403 and 500 with ok:false, 500 with a message, 200 with
\* ok:true), and one response is sent.
C8_OkFieldInEveryResponse ==
  \A r \in Reqs :
    (endpoint[r] = "/scrape" /\ res[r].sent > 0) =>
      /\ res[r].sent = 1
      /\ \/ res[r].status \in {400, 403} /\ res[r].ok = "false"
         \/ res[r].status = 500 /\ res[r].ok = "false" /\ res[r].error # ""
         \/ res[r].status = 200 /\ res[r].ok = "true"

\* C9: once the handler of a rendered request has returned, every browser it
\* launched is closed, on the success path and on every failure path; and a
\* browser is only ever used or closed by the request that launched it.
C9_BrowserClosedAndPrivate ==
  /\ \A r \in Reqs : pc[r] = "done" => browsers[r].state \in {"none", "closed"}
  /\ \A b \in Reqs : browsers[b].users \subseteq {b}
  /\ \A r \in Reqs : browser[r] \in {0, r}

\* a request that failed after its launch has returned with its browser
\* closed, while the browser of a concurrent request is still open
C9_Witness ==
  \E r, q \in Reqs :
    /\ r # q
    /\ pc[r] = "done" /\ res[r].status = 500 /\ browser[r] # 0
    /\ browsers[browser[r]].state = "closed"
    /\ browser[q] # 0 /\ browsers[browser[q]].state = "open"

\* C10: once the caller of /proxy has disconnected, the upstream stream of
\* that request is closed, not left open.
C10_DisconnectCancelsUpstream ==
  \A r \in Reqs : clientGone[r] => upstream[r].state \in {"destroyed", "ended", "failed"}

====
